---- MODULE Spec2Model ----
(***************************************************************************)
(* Model of packages/moxijs-examples/scripts/update_spritesheet_           *)
(* descriptions.py: the filename parser, the colour classifier, the        *)
(* description builder and the load / describe / write run of main.        *)
(*                                                                         *)
(* Strings are TLA+ strings (sequences of characters) handled with Len,    *)
(* SubSeq and \o.  The alphabet of the inputs is ASCII, the control        *)
(* characters included.  Floats are IEEE-754 binary64, computed exactly.   *)
(***************************************************************************)
EXTENDS Integers, Sequences, FiniteSets, TLC

VARIABLES
    fname,         \* describe_frame: the argument filename (the frame's key)
    frec,          \* describe_frame: the argument frame (the frame record)
    img,           \* the decoded RGBA atlas image
    result,        \* describe_frame: outcome of the call, NotCalled before it
    rgbArg,        \* classify_color: the argument, three int channels
    colorName,     \* classify_color: the returned name, "" before the call
    disk,          \* main: the document file, [status, doc]
    imageFile,     \* main: status of the sibling image file
    pc,            \* main: "start", "describing", "writing", "written", "done", "failed" ("idle" elsewhere)
    data,          \* main: the loaded document being mutated
    idx,           \* main: position of the for loop in frames.items()
    runs,          \* main: number of runs started
    orig,          \* history: the document file before the first run
    firstWritten   \* history: the document written by the first successful run

vars == <<fname, frec, img, result, rgbArg, colorName, disk, imageFile,
          pc, data, idx, runs, orig, firstWritten>>

(***************************************************************************)
(* Python str primitives                                                   *)
(***************************************************************************)
UpperAlpha == "ABCDEFGHIJKLMNOPQRSTUVWXYZ"
LowerAlpha == "abcdefghijklmnopqrstuvwxyz"
DigitChars == "0123456789"

Ch(s, i) == SubSeq(s, i, i)
CharsOf(s) == {Ch(s, i) : i \in 1..Len(s)}
IndexIn(alpha, c) == CHOOSE i \in 1..Len(alpha) : Ch(alpha, i) = c

DigitSet == CharsOf(DigitChars)
UpperSet == CharsOf(UpperAlpha)
LowerSet == CharsOf(LowerAlpha)
ToLower  == [c \in UpperSet |-> Ch(LowerAlpha, IndexIn(UpperAlpha, c))]
ToUpper  == [c \in LowerSet |-> Ch(UpperAlpha, IndexIn(LowerAlpha, c))]

IsDigit(c) == c \in DigitSet
IsUpper(c) == c \in UpperSet
IsLower(c) == c \in LowerSet
IsCased(c) == IsUpper(c) \/ IsLower(c)

LowerChar(c) == IF IsUpper(c) THEN ToLower[c] ELSE c
UpperChar(c) == IF IsLower(c) THEN ToUpper[c] ELSE c

\* The string operators recurse on halves of the index range, or from one
\* match to the next, to keep the evaluation shallow.
MinOf(S) == CHOOSE i \in S : \A j \in S : i <= j
MaxOf(S) == CHOOSE i \in S : \A j \in S : j <= i

RECURSIVE LowerRange(_, _, _)
LowerRange(s, lo, hi) ==
    IF lo > hi THEN ""
    ELSE IF lo = hi THEN LowerChar(Ch(s, lo))
    ELSE LowerRange(s, lo, (lo + hi) \div 2) \o LowerRange(s, (lo + hi) \div 2 + 1, hi)

\* s.lower()
Lower(s) == LowerRange(s, 1, Len(s))

RECURSIVE UpperRange(_, _, _)
UpperRange(s, lo, hi) ==
    IF lo > hi THEN ""
    ELSE IF lo = hi THEN UpperChar(Ch(s, lo))
    ELSE UpperRange(s, lo, (lo + hi) \div 2) \o UpperRange(s, (lo + hi) \div 2 + 1, hi)

\* s.upper()
Upper(s) == UpperRange(s, 1, Len(s))

\* str.title() at position i: a cased character is upper-cased when the
\* character before it is not cased, and lower-cased otherwise
TitleChar(s, i) ==
    IF ~IsCased(Ch(s, i)) THEN Ch(s, i)
    ELSE IF i > 1 /\ IsCased(Ch(s, i - 1)) THEN LowerChar(Ch(s, i))
    ELSE UpperChar(Ch(s, i))

RECURSIVE TitleRange(_, _, _)
TitleRange(s, lo, hi) ==
    IF lo > hi THEN ""
    ELSE IF lo = hi THEN TitleChar(s, lo)
    ELSE TitleRange(s, lo, (lo + hi) \div 2) \o TitleRange(s, (lo + hi) \div 2 + 1, hi)

\* s.title()
Title(s) == TitleRange(s, 1, Len(s))

StartsWith(s, p) == Len(p) <= Len(s) /\ SubSeq(s, 1, Len(p)) = p

\* the start positions of needle in hay
Occurrences(hay, needle) ==
    {i \in 1..(Len(hay) - Len(needle) + 1) : SubSeq(hay, i, i + Len(needle) - 1) = needle}

\* needle in hay
Contains(hay, needle) ==
    \E i \in 1..(Len(hay) - Len(needle) + 1) : SubSeq(hay, i, i + Len(needle) - 1) = needle

\* s.replace(old, new), old non-empty: leftmost non-overlapping occurrences
RECURSIVE Replace(_, _, _)
Replace(s, old, new) ==
    IF ~Contains(s, old) THEN s
    ELSE LET i == MinOf(Occurrences(s, old))
         IN  SubSeq(s, 1, i - 1) \o new
             \o Replace(SubSeq(s, i + Len(old), Len(s)), old, new)

\* the ASCII control characters that have no escape in a string
VerticalTab     == ""
FileSeparator   == ""
GroupSeparator  == ""
RecordSeparator == ""
UnitSeparator   == ""

\* the ASCII characters str.strip() removes
StripWhitespace ==
    {" ", "\t", "\n", VerticalTab, "\f", "\r",
     FileSeparator, GroupSeparator, RecordSeparator, UnitSeparator}

\* the ASCII characters int() skips around a literal
IntWhitespace == {" ", "\t", "\n", VerticalTab, "\f", "\r"}

\* s without the characters of blanks at its two ends
StripChars(s, blanks) ==
    LET inked == {i \in 1..Len(s) : Ch(s, i) \notin blanks}
    IN  IF inked = {} THEN "" ELSE SubSeq(s, MinOf(inked), MaxOf(inked))

\* s.strip()
Strip(s) == StripChars(s, StripWhitespace)

\* s.split(sep) for a one-character sep: the sequence of fields
RECURSIVE Split(_, _)
Split(s, sep) ==
    IF ~Contains(s, sep) THEN <<s>>
    ELSE LET i == MinOf(Occurrences(s, sep))
         IN  <<SubSeq(s, 1, i - 1)>> \o Split(SubSeq(s, i + 1, Len(s)), sep)

\* s.rsplit(sep, 1)[0]: everything before the last sep, or s without one
RSplitHead(s, sep) ==
    IF ~Contains(s, sep) THEN s ELSE SubSeq(s, 1, MaxOf(Occurrences(s, sep)) - 1)

\* " ".join(filter(None, fragments))
RECURSIVE JoinNonEmpty(_)
JoinNonEmpty(fragments) ==
    IF fragments = <<>> THEN ""
    ELSE LET tail == JoinNonEmpty(Tail(fragments))
         IN  IF Head(fragments) = "" THEN tail
             ELSE IF tail = "" THEN Head(fragments)
             ELSE Head(fragments) \o " " \o tail

\* s without its underscores
RECURSIVE DropUnderscores(_, _, _)
DropUnderscores(s, lo, hi) ==
    IF lo > hi THEN ""
    ELSE IF lo = hi THEN (IF Ch(s, lo) = "_" THEN "" ELSE Ch(s, lo))
    ELSE DropUnderscores(s, lo, (lo + hi) \div 2)
         \o DropUnderscores(s, (lo + hi) \div 2 + 1, hi)

\* str(int(s)) for a run of decimal digits: the numeral without leading zeros
Numeral(s) ==
    LET significant == {i \in 1..Len(s) : Ch(s, i) # "0"}
    IN  IF significant = {} THEN "0" ELSE SubSeq(s, MinOf(significant), Len(s))

\* the position where the $ of a pattern matches: the end of s, or before a
\* newline that is the last character of s
DollarAt(s) == IF s # "" /\ Ch(s, Len(s)) = "\n" THEN Len(s) - 1 ELSE Len(s)

\* length of the match of \d+$ in s (0 when there is none)
TrailingDigitCount(s) ==
    MaxOf({k \in 0..DollarAt(s) :
              \A i \in (DollarAt(s) - k + 1)..DollarAt(s) : IsDigit(Ch(s, i))})

\* re.sub(r"\d+$", "", s)
StripTrailingDigits(s) ==
    SubSeq(s, 1, DollarAt(s) - TrailingDigitCount(s)) \o SubSeq(s, DollarAt(s) + 1, Len(s))

\* re.search(r"(\d+)$", s): group 1, or "" when there is no match
TrailingDigits(s) == SubSeq(s, DollarAt(s) - TrailingDigitCount(s) + 1, DollarAt(s))

(***************************************************************************)
(* Python float arithmetic.  A float is IEEE-754 binary64; the values      *)
(* that occur are finite and far from the subnormal and overflow ranges.   *)
(* A float is the record [neg, m, e] with value (-1)^neg * m * 2^e, where  *)
(* m is a natural number kept as a little-endian sequence of limbs in      *)
(* base 2^15, odd unless the value is zero.  Every operation computes the  *)
(* exact result and rounds it to 53 significant bits, ties to even.        *)
(***************************************************************************)
LimbBase == 2^15

Min(a, b) == IF a < b THEN a ELSE b
Max(a, b) == IF a > b THEN a ELSE b

\* The operators on naturals are written without recursion on the limbs
\* (carries and borrows are found by looking back) to keep the evaluation
\* shallow.
LimbAt(a, i) == IF i \in 1..Len(a) THEN a[i] ELSE 0

\* drop the leading zero limbs
BNorm(a) ==
    IF a = <<>> \/ a[Len(a)] # 0 THEN a
    ELSE LET nz == {i \in 1..Len(a) : a[i] # 0}
         IN  IF nz = {} THEN <<>> ELSE SubSeq(a, 1, MaxOf(nz))

RECURSIVE BFromInt(_)
BFromInt(n) ==
    IF n = 0 THEN <<>> ELSE <<n % LimbBase>> \o BFromInt(n \div LimbBase)

\* -1, 0, 1 as a < b, a = b, a > b
BCmp(a, b) ==
    IF Len(a) < Len(b) THEN -1
    ELSE IF Len(a) > Len(b) THEN 1
    ELSE LET diff == {i \in 1..Len(a) : a[i] # b[i]}
         IN  IF diff = {} THEN 0
             ELSE IF a[MaxOf(diff)] < b[MaxOf(diff)] THEN -1 ELSE 1

BAdd(a, b) ==
    IF a = <<>> THEN BNorm(b)
    ELSE IF b = <<>> THEN BNorm(a)
    ELSE
    LET n == Max(Len(a), Len(b))
        S(i) == LimbAt(a, i) + LimbAt(b, i)
        Carry(i) == IF \E j \in 1..(i - 1) :
                          S(j) >= LimbBase /\ \A k \in (j + 1)..(i - 1) : S(k) = LimbBase - 1
                    THEN 1 ELSE 0
    IN  BNorm([i \in 1..(n + 1) |-> (S(i) + Carry(i)) % LimbBase])

\* a - b for a >= b
BSub(a, b) ==
    IF b = <<>> THEN a
    ELSE
    LET D(i) == LimbAt(a, i) - LimbAt(b, i)
        Borrow(i) == IF \E j \in 1..(i - 1) :
                           D(j) < 0 /\ \A k \in (j + 1)..(i - 1) : D(k) = 0
                     THEN 1 ELSE 0
    IN  BNorm([i \in 1..Len(a) |-> (D(i) - Borrow(i)) % LimbBase])

\* a * k for 0 <= k <= 2^15
BMulSmall(a, k) ==
    IF a = <<>> \/ k = 0 THEN <<>>
    ELSE
    BAdd([i \in 1..Len(a) |-> (a[i] * k) % LimbBase],
         [i \in 1..(Len(a) + 1) |-> IF i = 1 THEN 0 ELSE (a[i - 1] * k) \div LimbBase])

\* a * 2^k
BShl(a, k) ==
    IF a = <<>> THEN a
    ELSE [i \in 1..(k \div 15) |-> 0] \o BMulSmall(a, 2^(k % 15))

\* floor(a / 2^k), and whether a non-zero bit was dropped
BShr(a, k) ==
    IF a = <<>> \/ k = 0 THEN [q |-> a, sticky |-> FALSE]
    ELSE
    LET limbs == Min(k \div 15, Len(a))
        t     == k % 15
        hi    == SubSeq(a, limbs + 1, Len(a))
    IN  [q |-> BNorm([i \in 1..Len(hi) |->
                         (hi[i] \div 2^t) + (LimbAt(hi, i + 1) % 2^t) * 2^(15 - t)]),
         sticky |-> LimbAt(hi, 1) % 2^t # 0 \/ \E i \in 1..limbs : a[i] # 0]

\* the number of bits of 0 <= n < 2^15
SmallBitLen(n) == MinOf({k \in 0..15 : n < 2^k})

BBitLen(a) ==
    IF a = <<>> THEN 0 ELSE 15 * (Len(a) - 1) + SmallBitLen(a[Len(a)])

BIsOdd(a) == a # <<>> /\ a[1] % 2 = 1

\* floor(r / d) for r < d * 2^15 and d with its top bit in the top position
\* of its top limb: the estimate from the leading limbs is at most 2 too big
BQuotientDigit(r, d) ==
    IF BCmp(r, d) < 0 THEN 0
    ELSE
    LET n    == Len(d)
        est  == Min(LimbBase - 1,
                    (LimbAt(r, n + 1) * LimbBase + LimbAt(r, n)) \div d[n])
        Fits(q) == BCmp(BMulSmall(d, q), r) <= 0
    IN  IF Fits(est) THEN est
        ELSE IF Fits(est - 1) THEN est - 1
        ELSE est - 2

\* schoolbook long division: the limbs i .. 1 of n are still to be brought
\* down on the remainder r < d; q holds the digits found so far, cur is the
\* remainder with the next limb brought down and digit its quotient by d
RECURSIVE BLongDiv(_, _, _, _, _)
RECURSIVE BLongDivStep(_, _, _, _, _, _)
BLongDivStep(n, d, i, q, cur, digit) ==
    IF digit = 0
    THEN BLongDiv(n, d, i - 1, <<0>> \o q, cur)
    ELSE BLongDiv(n, d, i - 1, <<digit>> \o q, BSub(cur, BMulSmall(d, digit)))

BLongDiv(n, d, i, q, r) ==
    IF i = 0 THEN [q |-> q, r |-> r]
    ELSE BLongDivStep(n, d, i, q, BNorm(<<n[i]>> \o r),
                      BQuotientDigit(BNorm(<<n[i]>> \o r), d))

\* the result of a long division: the quotient, and whether nothing remains
BDivResult(qr) == [q |-> BNorm(qr.q), exact |-> qr.r = <<>>]

\* n by d for d with its top limb at least 2^14: the leading limbs of n that
\* are below d start as the remainder
BDivScaled(n, d) ==
    LET skip == Min(Len(n), Len(d) - 1)
    IN  BDivResult(BLongDiv(n, d, Len(n) - skip, <<>>,
                            SubSeq(n, Len(n) - skip + 1, Len(n))))

\* quotient of n by d, d > 0, and whether the division is exact; both are
\* scaled so that the top limb of d is at least 2^14
BDivMod(n, d) ==
    LET shift == 15 - SmallBitLen(d[Len(d)])
    IN  BDivScaled(BShl(n, shift), BShl(d, shift))

\* the number of low zero bits of 0 < n < 2^15
TrailingZeroBits(n) == MaxOf({k \in 0..14 : n % 2^k = 0})

FZero == [neg |-> FALSE, m |-> <<>>, e |-> 0]

\* the float of value m * 2^e for m of at most 53 bits, in canonical form
FCanon(neg, m, e) ==
    IF m = <<>> THEN FZero
    ELSE LET low  == MinOf({i \in 1..Len(m) : m[i] # 0})
             zero == 15 * (low - 1) + TrailingZeroBits(m[low])
         IN  [neg |-> neg, m |-> BShr(m, zero).q, e |-> e + zero]

\* round q1 * 2^(e - 1) to the nearest float, ties to even, for q1.q of 54
\* bits; q1.sticky or sticky tell of a positive amount below one unit of q1.q
FRoundHalf(neg, q1, e, sticky) ==
    LET q  == BShr(q1.q, 1).q
        up == BIsOdd(q1.q) /\ (q1.sticky \/ sticky \/ BIsOdd(q))
    IN  FCanon(neg, IF up THEN BAdd(q, <<1>>) ELSE q, e)

\* round m * 2^e (plus a positive amount below one unit of m when sticky)
\* to the nearest float, ties to even
FRound(neg, m, e, sticky) ==
    IF m = <<>> THEN FZero
    ELSE LET len == BBitLen(m)
         IN  IF len <= 53 THEN FCanon(neg, m, e)
             ELSE FRoundHalf(neg, BShr(m, len - 54), e + len - 53, sticky)

FromInt(n) == FCanon(n < 0, BFromInt(IF n < 0 THEN -n ELSE n), 0)

FNeg(x) == IF x.m = <<>> THEN x ELSE [x EXCEPT !.neg = ~x.neg]

\* the exact sum of (-1)^xneg * ax * 2^e and (-1)^yneg * ay * 2^e
FAddAligned(xneg, ax, yneg, ay, e) ==
    IF xneg = yneg THEN [neg |-> xneg, m |-> BAdd(ax, ay), e |-> e]
    ELSE IF ax = ay THEN FZero
    ELSE IF BCmp(ax, ay) > 0 THEN [neg |-> xneg, m |-> BSub(ax, ay), e |-> e]
    ELSE [neg |-> yneg, m |-> BSub(ay, ax), e |-> e]

\* the exact sum of x and y as [neg, m, e], m not rounded
FExactAdd(x, y) ==
    IF x.m = <<>> THEN y
    ELSE IF y.m = <<>> THEN x
    ELSE LET e == Min(x.e, y.e)
         IN  FAddAligned(x.neg, BShl(x.m, x.e - e), y.neg, BShl(y.m, y.e - e), e)

FRoundExact(s) == FRound(s.neg, s.m, s.e, FALSE)

FAdd(x, y) ==
    IF x.m = <<>> THEN y
    ELSE IF y.m = <<>> THEN x
    ELSE FRoundExact(FExactAdd(x, y))

FSub(x, y) == FAdd(x, FNeg(y))

FRoundQuotient(neg, qr, e) == FRound(neg, qr.q, e, ~qr.exact)

\* x / y for y # 0: the quotient of the magnitudes to at least 56 bits
FDiv(x, y) ==
    IF x.m = <<>> \/ y.m = <<>> THEN FZero
    ELSE LET k == Max(0, 56 + BBitLen(y.m) - BBitLen(x.m))
         IN  FRoundQuotient(x.neg # y.neg, BDivMod(BShl(x.m, k), y.m), x.e - y.e - k)

\* x * k for an integer 0 < k < 2^15
FMulInt(x, k) ==
    IF x.m = <<>> THEN FZero ELSE FRound(x.neg, BMulSmall(x.m, k), x.e, FALSE)

FIsNegative(s) == s.m # <<>> /\ s.neg

\* x < y
FLess(x, y) == IF x = y THEN FALSE ELSE FIsNegative(FExactAdd(x, FNeg(y)))

\* x % 1.0 for -1 < x < 1: fmod keeps x, a negative result gets 1.0 added
FMod1(x) == IF x.neg THEN FAdd(x, FromInt(1)) ELSE x

\* the float literal num / 10^k of the source text (correctly rounded)
FDecimal(num, den) == FDiv(FromInt(num), FromInt(den))

(***************************************************************************)
(* Colour classification                                                   *)
(***************************************************************************)
FMax2(x, y) == IF FLess(x, y) THEN y ELSE x
FMin2(x, y) == IF FLess(y, x) THEN y ELSE x

\* colorsys.rgb_to_hsv of the standard library, on three floats, one
\* operator per stage: the hue from rc, gc, bc, ...
HsvFromDistances(r, g, maxc, rangec, rc, gc, bc) ==
    [h |-> FMod1(FDiv(IF r = maxc THEN FSub(bc, gc)
                      ELSE IF g = maxc THEN FSub(FAdd(FromInt(2), rc), bc)
                      ELSE FSub(FAdd(FromInt(4), gc), rc),
                      FromInt(6))),
     s |-> FDiv(rangec, maxc),
     v |-> maxc]

\* ... rc, gc, bc from rangec, ...
HsvFromRange(r, g, b, maxc, rangec) ==
    HsvFromDistances(r, g, maxc, rangec,
                     FDiv(FSub(maxc, r), rangec),
                     FDiv(FSub(maxc, g), rangec),
                     FDiv(FSub(maxc, b), rangec))

\* ... the grey case and rangec from maxc and minc, ...
HsvFromExtremes(r, g, b, maxc, minc) ==
    IF minc = maxc THEN [h |-> FZero, s |-> FZero, v |-> maxc]
    ELSE HsvFromRange(r, g, b, maxc, FSub(maxc, minc))

\* ... and maxc, minc from the channels
RgbToHsv(r, g, b) ==
    HsvFromExtremes(r, g, b, FMax2(FMax2(r, g), b), FMin2(FMin2(r, g), b))

\* the float literals of classify_color
ChannelScale     == FromInt(255)
GreySaturation   == FDecimal(22, 100)
WhiteValue       == FDecimal(85, 100)
LightGreyValue   == FDecimal(6, 10)
GreyValue        == FDecimal(35, 100)
OrangeValue      == FDecimal(45, 100)
HueBounds        == [n \in {20, 40, 65, 160, 210, 255, 310, 340} |-> FromInt(n)]

\* the name of a hue in degrees, at value v
HueName(hue, v) ==
    IF FLess(hue, HueBounds[20]) \/ ~FLess(hue, HueBounds[340]) THEN "Red"
    ELSE IF FLess(hue, HueBounds[40])
         THEN (IF FLess(OrangeValue, v) THEN "Orange" ELSE "Brown")
    ELSE IF FLess(hue, HueBounds[65]) THEN "Yellow"
    ELSE IF FLess(hue, HueBounds[160]) THEN "Green"
    ELSE IF FLess(hue, HueBounds[210]) THEN "Cyan"
    ELSE IF FLess(hue, HueBounds[255]) THEN "Blue"
    ELSE IF FLess(hue, HueBounds[310]) THEN "Purple"
    ELSE "Magenta"

\* the name of the colour of hue h (a fraction of the turn), saturation s
\* and value v
HsvName(hsv) ==
    IF FLess(hsv.s, GreySaturation)
    THEN IF FLess(WhiteValue, hsv.v) THEN "White"
         ELSE IF FLess(LightGreyValue, hsv.v) THEN "Light Grey"
         ELSE IF FLess(GreyValue, hsv.v) THEN "Grey"
         ELSE "Dark Grey"
    ELSE HueName(FMulInt(hsv.h, 360), hsv.v)

\* rgb is a triple of floats (an int channel converts exactly)
classify_color(rgb) ==
    IF rgb[1] = FZero /\ rgb[2] = FZero /\ rgb[3] = FZero THEN "Black"
    ELSE HsvName(RgbToHsv(FDiv(rgb[1], ChannelScale), FDiv(rgb[2], ChannelScale),
                          FDiv(rgb[3], ChannelScale)))

(***************************************************************************)
(* Vocabularies                                                            *)
(***************************************************************************)
COLOR_TOKENS ==
    <<"bronze", "silver", "yellow", "orange", "purple", "green", "black",
      "white", "brown", "grey", "gray", "blue", "red", "teal", "gold">>

\* the dict as its items in insertion order
BASE_TYPE_MAP ==
    << <<"beam", "beam">>, <<"beamlong", "long beam">>, <<"bold", "bold glyph">>,
       <<"bolt", "bolt pickup">>, <<"button", "ui button">>,
       <<"cockpit", "cockpit module">>, <<"cursor", "ui cursor">>,
       <<"enemy", "enemy fighter">>, <<"engine", "engine pod">>,
       <<"fire", "thruster flame">>, <<"gun", "gun icon">>,
       <<"laser", "laser bolt">>, <<"meteor", "meteor">>,
       <<"numeral", "digit">>, <<"pill", "pill powerup">>,
       <<"playerlife", "life icon">>, <<"playership", "player ship">>,
       <<"powerup", "powerup">>, <<"scratch", "hull scratch">>,
       <<"shield", "shield icon">>, <<"speed", "speed icon">>,
       <<"star", "star icon">>, <<"things", "badge icon">>,
       <<"turretbase", "turret base">>, <<"ufo", "ufo saucer">>,
       <<"wing", "wing segment">> >>

SIZE_TOKENS ==
    [big |-> "big", med |-> "med", small |-> "small", tiny |-> "tiny", long |-> "long"]

SeqRange(seq) == {seq[i] : i \in 1..Len(seq)}

\* BASE_TYPE_MAP.keys()
BaseTypeKeys == [i \in 1..Len(BASE_TYPE_MAP) |-> BASE_TYPE_MAP[i][1]]

\* BASE_TYPE_MAP.get(key, default)
BaseTypeLabel(key, default) ==
    IF \E i \in 1..Len(BASE_TYPE_MAP) : BASE_TYPE_MAP[i][1] = key
    THEN BASE_TYPE_MAP[CHOOSE i \in 1..Len(BASE_TYPE_MAP) : BASE_TYPE_MAP[i][1] = key][2]
    ELSE default

\* sorted(keys, key=len, reverse=True): stable, longest first
RECURSIVE SortedFromLen(_, _)
SortedFromLen(keys, n) ==
    IF n < 0 THEN <<>>
    ELSE LET HasLen(k) == Len(k) = n
         IN  SelectSeq(keys, HasLen) \o SortedFromLen(keys, n - 1)

SortedByLenDesc(keys) ==
    LET longest == CHOOSE n \in {Len(k) : k \in SeqRange(keys)} :
                       \A k \in SeqRange(keys) : Len(k) <= n
    IN  IF keys = <<>> THEN keys ELSE SortedFromLen(keys, longest)

\* faulty variant: the keys in dict order, not longest first
Candidates_Unsorted == BaseTypeKeys

Candidates == SortedByLenDesc(BaseTypeKeys)

(***************************************************************************)
(* Filename parser                                                         *)
(***************************************************************************)
\* sys.int_info.default_max_str_digits: int() of a text with more digits
\* raises ValueError
MaxStrDigits == 4300

\* the text of an int literal without its sign
IntBody(text) ==
    IF text # "" /\ Ch(text, 1) \in {"+", "-"} THEN SubSeq(text, 2, Len(text)) ELSE text

\* int() accepts body: decimal digits, with single underscores between
\* digits, and no more than MaxStrDigits digits
IsIntBody(body) ==
    /\ body # ""
    /\ \A i \in 1..Len(body) :
           \/ IsDigit(Ch(body, i))
           \/ /\ Ch(body, i) = "_"
              /\ 1 < i /\ i < Len(body)
              /\ IsDigit(Ch(body, i - 1)) /\ IsDigit(Ch(body, i + 1))
    /\ Cardinality({i \in 1..Len(body) : IsDigit(Ch(body, i))}) <= MaxStrDigits

\* str(int(text)) for a literal without whitespace around it
IntText(text) ==
    LET numeral == Numeral(DropUnderscores(IntBody(text), 1, Len(IntBody(text))))
    IN  IF Ch(text, 1) = "-" /\ numeral # "0" THEN "-" \o numeral ELSE numeral

\* faulty variant: an int literal is kept as written, without int()
normalize_variant_raw(raw_variant) ==
    IF raw_variant = "" THEN ""
    ELSE IF IsIntBody(IntBody(StripChars(raw_variant, IntWhitespace)))
         THEN raw_variant
         ELSE Upper(raw_variant)

\* int() takes the literal with whitespace around it; anything else is a
\* ValueError and gives the text in upper case
normalize_variant(raw_variant) ==
    IF raw_variant = "" THEN ""
    ELSE IF IsIntBody(IntBody(StripChars(raw_variant, IntWhitespace)))
         THEN IntText(StripChars(raw_variant, IntWhitespace))
         ELSE Upper(raw_variant)

\* the first candidate that letters start with, and what follows it
MatchBase(letters, variant) ==
    LET Matches(candidate) == StartsWith(letters, candidate)
        found == SelectSeq(Candidates, Matches)
    IN  IF found # <<>>
        THEN <<found[1], SubSeq(letters, Len(found[1]) + 1, Len(letters)), variant>>
        ELSE <<letters, "", variant>>

\* <<key, remainder, variant>>
extract_base(part) == MatchBase(Lower(StripTrailingDigits(part)), TrailingDigits(part))

\* faulty variant: the trailing digits are not split off the letters
split_token_whole(token) == <<Lower(token), "">>

\* <<letters, number>>
split_token(token) == <<Lower(StripTrailingDigits(token)), TrailingDigits(token)>>

FrameName(filename) == RSplitHead(filename, ".")
Parts(filename) == Split(FrameName(filename), "_")

\* faulty variant: only the base segment of the name is lowercased and kept
LowerName_BaseOnly(filename) == Lower(Parts(filename)[1])

LowerName(filename) == Lower(FrameName(filename))
BaseOf(filename) == extract_base(Parts(filename)[1])

\* [base_remainder] if base_remainder else [], extended by parts[1:]
ExtraTokens(base_remainder, parts) ==
    (IF base_remainder # "" THEN <<base_remainder>> ELSE <<>>) \o Tail(parts)

\* [split_token(token) for token in extra_tokens if token]
SplitTokens(extra_tokens) ==
    LET NonEmpty(token) == token # ""
    IN  [i \in 1..Len(SelectSeq(extra_tokens, NonEmpty)) |->
            split_token(SelectSeq(extra_tokens, NonEmpty)[i])]

ParsedTokens(filename) ==
    SplitTokens(ExtraTokens(BaseOf(filename)[2], Parts(filename)))

\* [token for token, _ in parsed_tokens]
LettersOf(parsed_tokens) == [i \in 1..Len(parsed_tokens) |-> parsed_tokens[i][1]]

TokenLetters(filename) == LettersOf(ParsedTokens(filename))

(***************************************************************************)
(* Lexical colour detection                                                *)
(***************************************************************************)
ColorLabel(color_token) == Title(Replace(color_token, "gray", "grey"))

\* the first colour token occurring in text, "" when none does
FirstColorIn(text) ==
    LET Occurs(color_token) == Contains(text, color_token)
        found == SelectSeq(COLOR_TOKENS, Occurs)
    IN  IF found = <<>> THEN "" ELSE found[1]

\* the first token letters holding a colour token give that (first) token
RECURSIVE FirstColorInTokens(_)
FirstColorInTokens(token_letters) ==
    IF token_letters = <<>> THEN ""
    ELSE LET color_token == FirstColorIn(Head(token_letters))
         IN  IF color_token # "" THEN color_token
             ELSE FirstColorInTokens(Tail(token_letters))

\* faulty variant: the sample decides, whatever the name holds
detect_color_sampled(name_lower, token_letters, rgb) == classify_color(rgb)

detect_color(name_lower, token_letters, rgb) ==
    LET in_name   == FirstColorIn(name_lower)
        in_tokens == FirstColorInTokens(token_letters)
    IN  IF in_name # "" THEN ColorLabel(in_name)
        ELSE IF in_tokens # "" THEN ColorLabel(in_tokens)
        ELSE classify_color(rgb)

(***************************************************************************)
(* Region sampler                                                          *)
(***************************************************************************)
\* image.crop(box).getdata(): the pixels of the box in row-major order; the
\* part of the box outside the image is transparent black
Crop(image, x, y, w, h) ==
    [k \in 1..(w * h) |->
        LET px == x + ((k - 1) % w)
            py == y + ((k - 1) \div w)
        IN  IF px \in 0..(image.w - 1) /\ py \in 0..(image.h - 1)
            THEN image.px[<<px, py>>]
            ELSE <<0, 0, 0, 0>>]

RECURSIVE SumChannel(_, _)
SumChannel(pixels, c) ==
    IF pixels = <<>> THEN 0 ELSE Head(pixels)[c] + SumChannel(Tail(pixels), c)

\* the pixels of the rectangle with four channels and alpha above zero
OpaquePixels(image, frame) ==
    LET Opaque(pixel) == Len(pixel) = 4 /\ pixel[4] > 0
    IN  SelectSeq(Crop(image, frame.x, frame.y, frame.w, frame.h), Opaque)

\* sum(...) / len(pixels) for each of the three colour channels
MeanColor(pixels) ==
    LET Mean(c) == FDiv(FromInt(SumChannel(pixels, c)), FromInt(Len(pixels)))
    IN  <<Mean(1), Mean(2), Mean(3)>>

\* faulty variant: no test for an empty pixel list, so the mean of no pixel
\* divides by zero (ZeroDivisionError)
average_color_unguarded(image, frame) ==
    IF ~({"x", "y", "w", "h"} \subseteq DOMAIN frame)
    THEN [raised |-> TRUE, rgb |-> <<FZero, FZero, FZero>>]
    ELSE IF OpaquePixels(image, frame) = <<>>
    THEN [raised |-> TRUE, rgb |-> <<FZero, FZero, FZero>>]
    ELSE [raised |-> FALSE, rgb |-> MeanColor(OpaquePixels(image, frame))]

\* [raised, rgb]: raised when a key of the rectangle is missing (KeyError)
average_color(image, frame) ==
    IF ~({"x", "y", "w", "h"} \subseteq DOMAIN frame)
    THEN [raised |-> TRUE, rgb |-> <<FZero, FZero, FZero>>]
    ELSE IF OpaquePixels(image, frame) = <<>>
    THEN [raised |-> FALSE, rgb |-> <<FZero, FZero, FZero>>]
    ELSE [raised |-> FALSE, rgb |-> MeanColor(OpaquePixels(image, frame))]

(***************************************************************************)
(* Description builder                                                     *)
(***************************************************************************)
joined_variant(primary, fallback) ==
    IF primary # "" THEN "v" \o primary ELSE fallback

\* the "Light " and "Dark " abbreviations
ShortColor(detected) ==
    IF StartsWith(detected, "Light ") THEN Replace(detected, "Light ", "Lt ")
    ELSE IF StartsWith(detected, "Dark ") THEN Replace(detected, "Dark ", "Dk ")
    ELSE detected

\* the dispatch on base_key, from the parsed name and the abbreviated colour
\* to the final string
BuildDescription(base_key, base_remainder, variant_main, parsed_tokens, color) ==
    LET type_label     == BaseTypeLabel(base_key,
                              Replace(base_key, "playership", "player ship"))
        WithVariant(label) ==
            JoinNonEmpty(<<color, label, joined_variant(variant_main, "")>>)
        IsSize(t)      == t[1] \in DOMAIN SIZE_TOKENS
        IsSizeNum(t)   == t[1] \in DOMAIN SIZE_TOKENS /\ t[2] # ""
        IsDamage(t)    == t[1] = "damage"
        IsFlavor(t)    == t[1] # "" /\ t[1] \notin SeqRange(COLOR_TOKENS)
        NotColor(t)    == t[1] \notin SeqRange(COLOR_TOKENS)
        \* next((token[field] for token in parsed_tokens if Test(token)), default)
        Hits(Test(_))  == {i \in 1..Len(parsed_tokens) : Test(parsed_tokens[i])}
        Pick(Test(_), field, default) ==
            IF Hits(Test) = {} THEN default
            ELSE parsed_tokens[MinOf(Hits(Test))][field]
        size           == IF Hits(IsSize) = {} THEN ""
                          ELSE SIZE_TOKENS[Pick(IsSize, 1, "")]
        description ==
            CASE base_key = "beam" -> WithVariant("beam")
              [] base_key = "beamlong" -> WithVariant("long beam")
              [] base_key = "bold" -> color \o " bold glyph"
              [] base_key = "bolt" -> color \o " bolt pickup"
              [] base_key = "button" -> color \o " ui button"
              [] base_key = "cockpit" -> WithVariant("cockpit")
              [] base_key = "cursor" -> color \o " ui cursor"
              [] base_key = "enemy" -> WithVariant("enemy fighter")
              [] base_key = "engine" -> WithVariant("engine pod")
              [] base_key = "fire" -> WithVariant("thruster flame")
              [] base_key = "gun" -> WithVariant("gun icon")
              [] base_key = "laser" -> WithVariant("laser bolt")
              [] base_key = "meteor" ->
                    LET order == IF Hits(IsSizeNum) = {}
                                 THEN variant_main
                                 ELSE normalize_variant(Pick(IsSizeNum, 2, ""))
                    IN  JoinNonEmpty(<<color, size, "meteor", joined_variant(order, "")>>)
              [] base_key = "numeral" ->
                    color \o " digit "
                    \o (IF base_remainder # "" THEN Upper(base_remainder)
                        ELSE variant_main)
              [] base_key = "pill" -> color \o " pill powerup"
              [] base_key = "playerlife" -> WithVariant("life icon")
              [] base_key = "playership" ->
                    LET damage == IF Hits(IsDamage) = {} THEN ""
                                  ELSE normalize_variant(Pick(IsDamage, 2, ""))
                        damage_tag == IF damage # "" THEN "dmg" \o damage ELSE ""
                    IN  JoinNonEmpty(<<color, "player ship",
                                       joined_variant(variant_main, ""), damage_tag>>)
              [] base_key = "powerup" ->
                    color \o " " \o Pick(IsFlavor, 1, "orb") \o " powerup"
              [] base_key = "scratch" -> WithVariant("hull scratch")
              [] base_key = "shield" ->
                    JoinNonEmpty(<<color, "shield icon",
                                   joined_variant(normalize_variant(variant_main), "")>>)
              [] base_key = "speed" -> color \o " speed icon"
              [] base_key = "star" ->
                    JoinNonEmpty(<<color, "star icon",
                                   joined_variant(IF base_remainder # ""
                                                  THEN Upper(base_remainder)
                                                  ELSE variant_main, "")>>)
              [] base_key = "things" ->
                    LET flavor == IF base_remainder # "" THEN base_remainder
                                  ELSE Pick(NotColor, 1, "")
                    IN  JoinNonEmpty(<<color, IF flavor # "" THEN flavor ELSE "badge",
                                       "icon">>)
              [] base_key = "turretbase" -> JoinNonEmpty(<<color, size, "turret base">>)
              [] base_key = "ufo" -> color \o " ufo saucer"
              [] base_key = "wing" -> WithVariant("wing segment")
              [] OTHER -> JoinNonEmpty(<<color, Strip(type_label),
                                         joined_variant(variant_main, "")>>)
    IN  Strip(description)

\* describe_frame from the parsed name and the sample on: [raised, value]
DescribeParsed(filename, base, sampled) ==
    IF sampled.raised THEN [raised |-> TRUE, value |-> ""]
    ELSE [raised |-> FALSE,
          value  |-> BuildDescription(base[1], base[2], normalize_variant(base[3]),
                         ParsedTokens(filename),
                         ShortColor(detect_color(LowerName(filename),
                                                 TokenLetters(filename), sampled.rgb)))]

\* faulty variant: a description already in the record is kept in front of
\* the new one
describe_frame_appending(filename, frame, image) ==
    IF "frame" \notin DOMAIN frame THEN [raised |-> TRUE, value |-> ""]
    ELSE LET out  == DescribeParsed(filename, BaseOf(filename),
                                    average_color(image, frame.frame))
             kept == IF "description" \in DOMAIN frame THEN frame.description ELSE ""
         IN  IF out.raised THEN out
             ELSE [raised |-> FALSE, value |-> JoinNonEmpty(<<kept, out.value>>)]

\* [raised, value]: raised is the KeyError of a record without its rectangle
describe_frame(filename, frame, image) ==
    IF "frame" \notin DOMAIN frame THEN [raised |-> TRUE, value |-> ""]
    ELSE DescribeParsed(filename, BaseOf(filename), average_color(image, frame.frame))

(***************************************************************************)
(* Inputs                                                                  *)
(***************************************************************************)
MaxExtra  == 1    \* underscore-separated tokens after the base segment
MaxFrames == 2    \* frames of a document in a run of main
MaxRuns   == 2    \* runs of main on the same files

\* a 4 x 2 RGBA atlas
Atlas ==
    [w |-> 4, h |-> 2,
     px |-> ( <<0, 0>> :> <<255, 255, 255, 0>>   @@ <<1, 0>> :> <<255, 0, 0, 255>>
           @@ <<2, 0>> :> <<127, 127, 127, 255>> @@ <<3, 0>> :> <<128, 128, 128, 255>>
           @@ <<0, 1>> :> <<33, 11, 0, 255>>     @@ <<1, 1>> :> <<0, 0, 255, 128>>
           @@ <<2, 1>> :> <<0, 0, 0, 255>>       @@ <<3, 1>> :> <<200, 255, 255, 255>> )]

Rect(x, y, w, h) == [x |-> x, y |-> y, w |-> w, h |-> h]

ClearRect   == Rect(0, 0, 1, 1)    \* one transparent pixel
OutsideRect == Rect(4, 1, 2, 1)    \* wholly outside the image
RedRect     == Rect(1, 0, 1, 1)
GreyRect    == Rect(2, 0, 2, 1)    \* mean 127.5 on every channel
EdgeRect    == Rect(3, 1, 2, 2)    \* one pixel inside, three outside

StaleRecord    == [frame |-> RedRect, description |-> "stale", rotated |-> FALSE]
NoRectRecord   == [rotated |-> FALSE]
HalfRectRecord == [frame |-> [x |-> 0, y |-> 0, w |-> 1]]

\* frame records: with a rectangle, with other fields, without a (whole) rectangle
FrameRecords ==
    {[frame |-> r] : r \in {ClearRect, OutsideRect, GreyRect}}
    \cup {StaleRecord, NoRectRecord, HalfRectRecord}

\* base segments: the keys, names in mixed case, a name of no key, and names
\* with a control character that str.strip() removes
Bases ==
    SeqRange(BaseTypeKeys)
    \cup {"playerShip", "turretBase", "RedLaser", "x",
          "x" \o VerticalTab, "numeral" \o FileSeparator}
\* ends of the base segment and tokens; a digit run may be followed by a
\* newline that ends the frame name
StemTails  == {"", "Red", "Big", "2", "2\n", "Red03"}
TokenTexts == {"", "Big07", "07", "03", "damage2", "Gray7\n"}

RECURSIVE JoinTokens(_)
JoinTokens(tokens) ==
    IF tokens = <<>> THEN "" ELSE "_" \o Head(tokens) \o JoinTokens(Tail(tokens))

TokenLists == UNION {[1..n -> TokenTexts] : n \in 0..MaxExtra}

Stems == {base \o tail : base \in Bases, tail \in StemTails}

\* atlas keys with the ".png" extension, and bare stems without one
Filenames ==
    {stem \o JoinTokens(tokens) \o ".png" : stem \in Stems, tokens \in TokenLists}
    \cup Stems

Levels == {0, 11, 33, 39, 50, 85, 128, 153, 217, 255}

NotCalled == [called |-> FALSE, raised |-> FALSE, value |-> ""]
NoFile    == [status |-> "none"]

IdleFrame == fname = "" /\ frec = [frame |-> ClearRect] /\ result = NotCalled
IdleColor == rgbArg = <<0, 0, 0>> /\ colorName = ""
IdleMain  == /\ disk = NoFile /\ imageFile = "none" /\ pc = "idle" /\ data = NoFile
             /\ idx = 0 /\ runs = 0 /\ orig = NoFile /\ firstWritten = NoFile

frameVars == <<fname, frec, result>>
colorVars == <<rgbArg, colorName>>
mainVars  == <<disk, imageFile, pc, data, idx, runs, orig, firstWritten>>

(***************************************************************************)
(* describe_frame applied to one frame                                     *)
(***************************************************************************)
Init ==
    /\ fname \in Filenames
    /\ frec \in FrameRecords
    /\ img = Atlas
    /\ result = NotCalled
    /\ IdleColor
    /\ IdleMain

DescribeFrame ==
    /\ ~result.called
    /\ result' = [called |-> TRUE] @@ describe_frame(fname, frec, img)
    /\ UNCHANGED <<fname, frec, img, colorVars, mainVars>>

Next == DescribeFrame

Spec == Init /\ [][Next]_vars

(***************************************************************************)
(* classify_color applied to one triple of int channels                    *)
(***************************************************************************)
InitColor ==
    /\ rgbArg \in Levels \X Levels \X Levels
    /\ colorName = ""
    /\ img = Atlas
    /\ IdleFrame
    /\ IdleMain

ClassifyColor ==
    /\ colorName = ""
    /\ colorName' = classify_color(<<FromInt(rgbArg[1]), FromInt(rgbArg[2]),
                                     FromInt(rgbArg[3])>>)
    /\ UNCHANGED <<rgbArg, img, frameVars, mainVars>>

NextColor == ClassifyColor

SpecColor == InitColor /\ [][NextColor]_vars

(***************************************************************************)
(* main: load the document and the image, describe every frame in memory,  *)
(* then write the document back.  A document is a record of its top-level  *)
(* fields; "frames" holds <<filename, record>> pairs in the order of the   *)
(* JSON object.  pc is the position in main.                               *)
(***************************************************************************)
MainNames   == {"laserRed03.png", "ufo.png", "laser2\n.png", "x" \o VerticalTab \o ".png"}
MainRecords == {[frame |-> GreyRect], [frame |-> ClearRect], StaleRecord, NoRectRecord}

FrameLists ==
    UNION {{fs \in [1..n -> MainNames \X MainRecords] :
                \A i, j \in 1..n : fs[i][1] = fs[j][1] => i = j} : n \in 0..MaxFrames}

Documents ==
    {[meta |-> "atlas", frames |-> fs] : fs \in FrameLists} \cup {[meta |-> "atlas"]}

Disks ==
    {[status |-> "ok", doc |-> d] : d \in Documents}
    \cup {[status |-> "missing"], [status |-> "corrupt"]}

\* the file during a write: truncated to no byte by open("w"), then holding
\* the start of the text of the document; neither is valid JSON
EmptyFile   == [status |-> "empty"]
PartialFile == [status |-> "partial"]

\* data.get("frames", {})
FramesOf(document) == IF "frames" \in DOMAIN document THEN document.frames ELSE <<>>

\* faulty variant: the record is rebuilt from the rectangle and the description
SetDescription_Rebuilt(details, description) ==
    [frame |-> details.frame, description |-> description]

\* details["description"] = description
SetDescription(details, description) ==
    [k \in DOMAIN details \cup {"description"} |->
        IF k = "description" THEN description ELSE details[k]]

InitMain ==
    /\ disk \in Disks
    /\ imageFile \in {"ok", "missing"}
    /\ img = Atlas
    /\ pc = "start"
    /\ data = NoFile
    /\ idx = 0
    /\ runs = 1
    /\ orig = disk
    /\ firstWritten = NoFile
    /\ IdleFrame
    /\ IdleColor

\* load_assets: json.load, then Image.open; either may raise
LoadAssets ==
    /\ pc = "start"
    /\ IF disk.status = "ok" /\ imageFile = "ok"
       THEN data' = disk.doc /\ idx' = 1 /\ pc' = "describing"
       ELSE pc' = "failed" /\ UNCHANGED <<data, idx>>
    /\ UNCHANGED <<disk, imageFile, runs, orig, firstWritten, img, frameVars, colorVars>>

\* one iteration of the loop over frames.items()
DescribeNext ==
    /\ pc = "describing"
    /\ idx <= Len(FramesOf(data))
    /\ LET filename == data.frames[idx][1]
           details  == data.frames[idx][2]
           out      == describe_frame(filename, details, img)
       IN  IF out.raised
           THEN pc' = "failed" /\ UNCHANGED <<data, idx>>
           ELSE /\ data' = [data EXCEPT
                               !.frames[idx][2] = SetDescription(details, out.value)]
                /\ idx' = idx + 1
                /\ pc' = pc
    /\ UNCHANGED <<disk, imageFile, runs, orig, firstWritten, img, frameVars, colorVars>>

\* open("w"), after the loop has ended: the file is truncated, or the open
\* raises OSError and the file is as it was
OpenDocument ==
    /\ pc = "describing"
    /\ idx > Len(FramesOf(data))
    /\ \E opened \in BOOLEAN :
           IF opened
           THEN disk' = EmptyFile /\ pc' = "writing"
           ELSE pc' = "failed" /\ UNCHANGED disk
    /\ UNCHANGED <<data, idx, imageFile, runs, orig, firstWritten, img, frameVars,
                   colorVars>>

\* json.dump(data) into the open file and its close: the whole text is
\* written, or a write raises OSError and the file keeps what got through
DumpDocument ==
    /\ pc = "writing"
    /\ \E written \in BOOLEAN :
           IF written
           THEN /\ disk' = [status |-> "ok", doc |-> data]
                /\ firstWritten' = IF firstWritten = NoFile THEN disk' ELSE firstWritten
                /\ pc' = "written"
           ELSE /\ disk' \in {EmptyFile, PartialFile}
                /\ pc' = "failed"
                /\ UNCHANGED firstWritten
    /\ UNCHANGED <<data, idx, imageFile, runs, orig, img, frameVars, colorVars>>

\* print(...) of the number of frames, the last statement of main: the run
\* ends, or the write to stdout raises OSError with the file already written
PrintSummary ==
    /\ pc = "written"
    /\ pc' \in {"done", "failed"}
    /\ UNCHANGED <<disk, data, idx, imageFile, runs, orig, firstWritten, img,
                   frameVars, colorVars>>

\* the tool is started again on the files as the previous run left them
RunAgain ==
    /\ pc \in {"done", "failed"}
    /\ runs < MaxRuns
    /\ runs' = runs + 1
    /\ orig' = disk
    /\ data' = NoFile
    /\ idx' = 0
    /\ pc' = "start"
    /\ UNCHANGED <<disk, imageFile, firstWritten, img, frameVars, colorVars>>

NextMain ==
    LoadAssets \/ DescribeNext \/ OpenDocument \/ DumpDocument \/ PrintSummary \/ RunAgain

SpecMain == InitMain /\ [][NextMain]_vars

(***************************************************************************)
(* Properties of describe_frame (specification Spec)                       *)
(***************************************************************************)
Described == result.called /\ ~result.raised

\* positions in COLOR_TOKENS of the tokens occurring in the lowercased name
NameColors ==
    {i \in 1..Len(COLOR_TOKENS) : Contains(LowerName(fname), COLOR_TOKENS[i])}

\* the first of them, with "gray" spelled "grey", capitalised
NameColorWord ==
    LET first   == COLOR_TOKENS[MinOf(NameColors)]
        spelled == IF first = "gray" THEN "grey" ELSE first
    IN  Upper(SubSeq(spelled, 1, 1)) \o SubSeq(spelled, 2, Len(spelled))

\* C1: when the lowercased frame name contains a colour token, the
\* description is the same for every sampled rectangle (so for every sampled
\* colour) and begins with the first such token of COLOR_TOKENS, capitalised,
\* "gray" written "Grey".
C1_LexicalColorOverridesSample ==
    (Described /\ NameColors # {}) =>
        /\ \A r \in {ClearRect, GreyRect, EdgeRect} :
               describe_frame(fname, [frame |-> r], img)
                   = [raised |-> FALSE, value |-> result.value]
        /\ StartsWith(result.value, NameColorWord)

C1_Witness ==
    /\ Described
    /\ fname = "ufo_Gray7\n.png"
    /\ frec = StaleRecord
    /\ result.value = "Grey ufo saucer"

\* C3 as stated: the frame named "RedLaser_03" is described as
\* "Red laser bolt v3".
C3_AsStated ==
    (Described /\ FrameName(fname) = "RedLaser_03") =>
        result.value = "Red laser bolt v3"

\* C3: whatever the sampled rectangle, the frame named "RedLaser_03" is
\* described as "Red redlaser" (no base-type key is a prefix of "redlaser",
\* and the token "03" is not used), and the frame named "laserRed03" is
\* described as "Red laser bolt v3".
C3_RedLaserDescriptions ==
    Described =>
        /\ FrameName(fname) = "RedLaser_03" => result.value = "Red redlaser"
        /\ FrameName(fname) = "laserRed03" => result.value = "Red laser bolt v3"

C3_Witness ==
    /\ Described
    /\ FrameName(fname) = "RedLaser_03"
    /\ frec = [frame |-> GreyRect]
    /\ result.value = "Red redlaser"

\* C4 as stated: the frame named "meteorBig_07" over pixels of mean 127.5
\* (value 0.5) is described as "Grey big meteor v7".
C4_AsStated ==
    (Described /\ FrameName(fname) = "meteorBig_07" /\ frec.frame = GreyRect) =>
        result.value = "Grey big meteor v7"

\* C4: over pixels of mean 127.5 on every channel (value 0.5), the frame
\* named "meteorBig_07" is described as "Grey big meteor" (a number is taken
\* as the order only from the size token that carries it, or from the base
\* segment), and the frame named "meteor_Big07" as "Grey big meteor v7".
C4_GreyMeteorDescriptions ==
    (Described /\ frec.frame = GreyRect) =>
        /\ FrameName(fname) = "meteorBig_07" => result.value = "Grey big meteor"
        /\ FrameName(fname) = "meteor_Big07" => result.value = "Grey big meteor v7"

C4_Witness ==
    /\ Described
    /\ fname = "meteorBig_07.png"
    /\ frec = [frame |-> GreyRect]
    /\ result.value = "Grey big meteor"

\* C5 as stated: extract_base gives the longest base-type key that is a
\* prefix of the segment's lowercased letters (the segment without the digit
\* run at its end), the letters after it and that digit run; "beamlong2"
\* gives <<"beamlong", "", "2">>; with no key as a prefix it gives the whole
\* lowercased letters and an empty remainder.
C5_AsStated ==
    result.called =>
        LET part     == Parts(fname)[1]
            len      == Len(part)
            n        == CHOOSE k \in 0..len :
                            /\ \A i \in (len - k + 1)..len : IsDigit(Ch(part, i))
                            /\ k = len \/ ~IsDigit(Ch(part, len - k))
            letters  == Lower(SubSeq(part, 1, len - n))
            prefixes == {k \in SeqRange(BaseTypeKeys) : StartsWith(letters, k)}
            got      == extract_base(part)
        IN  /\ got[3] = SubSeq(part, len - n + 1, len)
            /\ prefixes # {} =>
                   /\ got[1] \in prefixes
                   /\ \A k \in prefixes : Len(k) <= Len(got[1])
                   /\ got[1] \o got[2] = letters
            /\ prefixes = {} => got[1] = letters /\ got[2] = ""
            /\ part = "beamlong2" => got = <<"beamlong", "", "2">>

\* C5: the digit run of a segment is the longest run of digits that ends
\* the segment or is followed only by a newline ending the segment; the
\* letters are the segment without that run (a newline after the run stays),
\* lowercased.  extract_base gives the longest base-type key that is a prefix
\* of the letters, the letters after it and the digit run; "beamlong2" gives
\* <<"beamlong", "", "2">>; with no key as a prefix it gives the whole
\* letters and an empty remainder.
C5_LongestKeyPrefix ==
    result.called =>
        LET part     == Parts(fname)[1]
            len      == Len(part)
            last     == IF len > 0 /\ Ch(part, len) = "\n" THEN len - 1 ELSE len
            n        == CHOOSE k \in 0..last :
                            /\ \A i \in (last - k + 1)..last : IsDigit(Ch(part, i))
                            /\ k = last \/ ~IsDigit(Ch(part, last - k))
            letters  == Lower(SubSeq(part, 1, last - n) \o SubSeq(part, last + 1, len))
            prefixes == {k \in SeqRange(BaseTypeKeys) : StartsWith(letters, k)}
            got      == extract_base(part)
        IN  /\ got[3] = SubSeq(part, last - n + 1, last)
            /\ prefixes # {} =>
                   /\ got[1] \in prefixes
                   /\ \A k \in prefixes : Len(k) <= Len(got[1])
                   /\ got[1] \o got[2] = letters
            /\ prefixes = {} => got[1] = letters /\ got[2] = ""
            /\ part = "beamlong2" => got = <<"beamlong", "", "2">>

C5_Witness ==
    /\ Described
    /\ fname = "beamlong2\n.png"
    /\ frec = [frame |-> GreyRect]
    /\ BaseOf(fname) = <<"beamlong", "\n", "2">>
    /\ result.value = "Grey long beam v2"

\* no pixel of the rectangle that lies inside the image has alpha above zero
NoOpaquePixel(rect) ==
    \A px \in rect.x..(rect.x + rect.w - 1), py \in rect.y..(rect.y + rect.h - 1) :
        (px \in 0..(img.w - 1) /\ py \in 0..(img.h - 1)) => img.px[<<px, py>>][4] = 0

WholeRect == "frame" \in DOMAIN frec /\ {"x", "y", "w", "h"} \subseteq DOMAIN frec.frame

\* C7: for a rectangle without any pixel of alpha above zero nothing is
\* raised, average_color gives (0, 0, 0), that sample classifies as "Black",
\* and with no colour token in the name the description begins with "Black".
C7_TransparentIsBlack ==
    (result.called /\ WholeRect /\ NoOpaquePixel(frec.frame)) =>
        /\ ~result.raised
        /\ average_color(img, frec.frame)
               = [raised |-> FALSE, rgb |-> <<FZero, FZero, FZero>>]
        /\ classify_color(average_color(img, frec.frame).rgb) = "Black"
        /\ NameColors = {} => StartsWith(result.value, "Black")

C7_Witness ==
    /\ Described
    /\ fname = "ufo.png"
    /\ frec = [frame |-> ClearRect]
    /\ result.value = "Black ufo saucer"

\* C10 as stated: the letters of every parsed token occur in the lowercased
\* name, so detect_color gives with the tokens what it gives with no tokens,
\* and when no colour token occurs in the name it gives classify_color of the
\* sample.
C10_AsStated ==
    Described =>
        LET lower  == LowerName(fname)
            tokens == TokenLetters(fname)
            rgb    == average_color(img, frec.frame).rgb
        IN  /\ \A i \in 1..Len(tokens) : Contains(lower, tokens[i])
            /\ IF NameColors # {}
               THEN detect_color(lower, tokens, rgb) = detect_color(lower, <<>>, rgb)
               ELSE /\ FirstColorInTokens(tokens) = ""
                    /\ detect_color(lower, tokens, rgb) = classify_color(rgb)

\* C10: every colour token that occurs in the letters of a parsed token
\* occurs in the lowercased name (the letters themselves need not: a digit
\* run before a final newline is cut out of them), so detect_color gives with
\* the tokens what it gives with no tokens, and when no colour token occurs
\* in the name it gives classify_color of the sample.
C10_TokenScanNeverDecides ==
    Described =>
        LET lower  == LowerName(fname)
            tokens == TokenLetters(fname)
            rgb    == average_color(img, frec.frame).rgb
        IN  /\ \A i \in 1..Len(tokens) : \A c \in SeqRange(COLOR_TOKENS) :
                   Contains(tokens[i], c) => Contains(lower, c)
            /\ IF NameColors # {}
               THEN detect_color(lower, tokens, rgb) = detect_color(lower, <<>>, rgb)
               ELSE /\ FirstColorInTokens(tokens) = ""
                    /\ detect_color(lower, tokens, rgb) = classify_color(rgb)

C10_Witness ==
    /\ Described
    /\ fname = "ufo_Gray7\n.png"
    /\ frec = [frame |-> GreyRect]
    /\ TokenLetters(fname) = <<"gray\n">>
    /\ ~Contains(LowerName(fname), "gray\n")
    /\ FirstColorInTokens(TokenLetters(fname)) = "gray"
    /\ result.value = "Grey ufo saucer"

(***************************************************************************)
(* Properties of classify_color (specification SpecColor)                  *)
(***************************************************************************)
\* the threshold table over the rationals, for int channels: saturation is
\* (max - min) / max, value is max / 255, and the hue in degrees is
\* HueNum / (max - min)
TableColor(rgb) ==
    LET r    == rgb[1]
        g    == rgb[2]
        b    == rgb[3]
        maxc == Max(Max(r, g), b)
        minc == Min(Min(r, g), b)
        d    == maxc - minc
        sixths == IF r = maxc THEN g - b
                  ELSE IF g = maxc THEN 2 * d + (b - r)
                  ELSE 4 * d + (r - g)
        HueNum == (60 * sixths) % (360 * d)
        HueBelow(deg) == HueNum < deg * d
    IN  IF maxc = 0 THEN "Black"
        ELSE IF 100 * d < 22 * maxc
        THEN IF 100 * maxc > 85 * 255 THEN "White"
             ELSE IF 10 * maxc > 6 * 255 THEN "Light Grey"
             ELSE IF 100 * maxc > 35 * 255 THEN "Grey"
             ELSE "Dark Grey"
        ELSE IF HueBelow(20) \/ ~HueBelow(340) THEN "Red"
        ELSE IF HueBelow(40)
             THEN (IF 100 * maxc > 45 * 255 THEN "Orange" ELSE "Brown")
        ELSE IF HueBelow(65) THEN "Yellow"
        ELSE IF HueBelow(160) THEN "Green"
        ELSE IF HueBelow(210) THEN "Cyan"
        ELSE IF HueBelow(255) THEN "Blue"
        ELSE IF HueBelow(310) THEN "Purple"
        ELSE "Magenta"

\* C6: for int channels in 0..255 classify_color gives the name of the
\* threshold table.
C6_ThresholdTable ==
    colorName # "" => colorName = TableColor(rgbArg)

(***************************************************************************)
(* Properties of main (specification SpecMain)                             *)
(***************************************************************************)
\* after holds the frames of before, each with the description that
\* describe_frame gives for the record of before
AllDescribed(before, after) ==
    /\ Len(FramesOf(after)) = Len(FramesOf(before))
    /\ \A i \in 1..Len(FramesOf(before)) :
           LET old == FramesOf(before)[i]
               new == FramesOf(after)[i]
               out == describe_frame(old[1], old[2], img)
           IN  /\ ~out.raised
               /\ new[1] = old[1]
               /\ "description" \in DOMAIN new[2]
               /\ new[2].description = out.value

\* C2: the file is as the run found it until it is opened for writing, and
\* when the run has ended the file is as the run found it or holds the
\* document with every frame described.
C2_AllOrNothing ==
    /\ pc \in {"start", "describing"} => disk = orig
    /\ pc \in {"done", "failed"} =>
           \/ disk = orig
           \/ /\ orig.status = "ok" /\ disk.status = "ok"
              /\ AllDescribed(orig.doc, disk.doc)

\* C8: once a run has written the document, the file, whenever it holds a
\* document, holds the one the first writing run wrote, and every description
\* in it is the one describe_frame gives for the filename and the rectangle
\* alone.
C8_RerunIdempotent ==
    (firstWritten # NoFile /\ disk.status = "ok") =>
        /\ disk = firstWritten
        /\ \A i \in 1..Len(FramesOf(disk.doc)) :
               LET entry == disk.doc.frames[i]
               IN  entry[2].description
                       = describe_frame(entry[1], [frame |-> entry[2].frame], img).value

C8_Witness ==
    /\ pc = "done"
    /\ runs = 2
    /\ orig = firstWritten
    /\ disk = firstWritten
    /\ Len(FramesOf(disk.doc)) = 2
    /\ \E i \in 1..2 : disk.doc.frames[i][2] = [StaleRecord EXCEPT !.description = "Red ufo saucer"]

\* C9: the document written by a successful run has the top-level fields of
\* the loaded one, the same filenames in the same order, in every record the
\* fields it had with the same values except "description", and in every
\* record a string "description".
C9_OnlyDescriptionChanges ==
    pc \in {"written", "done"} =>
        /\ DOMAIN disk.doc = DOMAIN orig.doc
        /\ \A k \in DOMAIN orig.doc \ {"frames"} : disk.doc[k] = orig.doc[k]
        /\ Len(FramesOf(disk.doc)) = Len(FramesOf(orig.doc))
        /\ \A i \in 1..Len(FramesOf(orig.doc)) :
               LET old == orig.doc.frames[i]
                   new == disk.doc.frames[i]
               IN  /\ new[1] = old[1]
                   /\ DOMAIN new[2] = DOMAIN old[2] \cup {"description"}
                   /\ \A k \in DOMAIN old[2] \ {"description"} : new[2][k] = old[2][k]
                   /\ new[2].description \in STRING

C9_Witness ==
    /\ pc = "done"
    /\ runs = 1
    /\ Len(FramesOf(orig.doc)) = 2
    /\ orig.doc.frames[1] = <<"ufo.png", StaleRecord>>
    /\ "description" \notin DOMAIN orig.doc.frames[2][2]
    /\ disk.doc.frames[1][2].rotated = FALSE
    /\ disk.doc.frames[1][2].description = "Red ufo saucer"

====
